---- MODULE Spec2Model ----
(***************************************************************************)
(* Model of aws_ssh_access.py: one run of main() from the selection of the *)
(* security group to the final summary, against one remote security group. *)
(* The remote group is a set of ingress entries; AWS identifies an entry   *)
(* by (IpProtocol, FromPort, ToPort, CidrIp), the Description is a label   *)
(* attached to it.  A permission may also have sources that are no IPv4    *)
(* range; the script never reads or changes those, but the permission is   *)
(* listed in IpPermissions all the same.  The snapshot the script works on *)
(* is the dict returned by describe_security_groups and is never fetched   *)
(* again during a run.                                                     *)
(***************************************************************************)
EXTENDS Naturals, Sequences, FiniteSets

\* At most this many IPv4 ingress entries in the remote group at the start.
MaxEntries == 2

\* At most this many permissions of the group with a source that is not an
\* IPv4 range (another group, an IPv6 range).
MaxOtherSources == 1

\* How many times the operator runs the tool in a row (SpecRerun only).
MaxRuns == 2

\* The ports, addresses and labels the model draws from.
Ports == {22, 23}
Addresses == {"10.0.0.5", "203.0.113.9"}
Labels == {"alice", "bob"}

\* dict.get() of a missing key: the FromPort/ToPort of an all-protocols rule.
None == 0

\* Environment values of USER: set to a label, or unset/empty.
EnvUsers == Labels \cup {""}

\* x.x.x.x/32: the address text with the mask suffix appended (line 203).
\* Texts are token sequences, so that the suffix is really appended.
Cidr32(text) == text \o <<"/32">>

\* os.getenv("USER") or "AWS-ACCESS" (line 265).
UserName(env) == IF env = "" THEN "AWS-ACCESS" ELSE env

\* The bodies of an answer that is not the caller's address: the empty body
\* and the error page of an HTTP 4xx/5xx answer.
ErrorBodies == {<<>>, <<"<html>503 Service Unavailable</html>">>}

\* What requests.get(...).text.strip() returns when the request does not
\* raise (line 35): the stripped body of whatever was answered.  There is
\* no raise_for_status() and no validation, so the body of a failed
\* resolution is returned like an address.
ResponseTexts == {<<a>> : a \in Addresses} \cup ErrorBodies

\* A CidrIp the provider accepts in an authorize: an address and its mask.
ValidCidr(c) == c \in {Cidr32(<<a>>) : a \in Addresses}

PortRanges == {<<f, t>> \in Ports \X Ports : f <= t}

\* Every ingress entry the model draws the initial group from: one IpRange
\* (CidrIp, Description) of one IpPermission (IpProtocol, FromPort, ToPort).
AllEntries ==
    {[IpProtocol |-> pr, FromPort |-> r[1], ToPort |-> r[2],
      CidrIp |-> Cidr32(<<a>>), Description |-> d] :
        pr \in {"tcp", "udp"}, r \in PortRanges, a \in Addresses, d \in Labels}
    \cup
    {[IpProtocol |-> "-1", FromPort |-> None, ToPort |-> None,
      CidrIp |-> Cidr32(<<a>>), Description |-> d] :
        a \in Addresses, d \in Labels}

\* The IpPermission an entry belongs to.
PermKey(e) == <<e.IpProtocol, e.FromPort, e.ToPort>>

\* The identity of an entry for the remote API.
RuleKey(e) == <<e.IpProtocol, e.FromPort, e.ToPort, e.CidrIp>>

RECURSIVE PoliciesUpTo(_)
PoliciesUpTo(n) ==
    IF n = 0 THEN {{}}
    ELSE LET prev == PoliciesUpTo(n - 1)
         IN prev \cup
            UNION {{p \cup {e} : e \in {x \in AllEntries :
                                          \A y \in p : RuleKey(y) # RuleKey(x)}}
                   : p \in prev}

Policies == PoliciesUpTo(MaxEntries)

\* The permissions (IpProtocol, FromPort, ToPort) a group can list.
AllPermKeys == {PermKey(e) : e \in AllEntries}

\* The sets of permissions that carry a source other than an IPv4 range
\* (UserIdGroupPairs, Ipv6Ranges): their IpRanges may be empty.
OtherSourceSets ==
    {k \in SUBSET AllPermKeys : Cardinality(k) <= MaxOtherSources}

\* g['IpPermissions'] as describe_security_groups lists it: one permission
\* per (IpProtocol, FromPort, ToPort) that has any source (lines 129, 136).
IpPermissions(g, others) == {PermKey(e) : e \in g} \cup others

VARIABLES
    remote,         \* the security group's IPv4 ingress entries at the provider
    otherSources,   \* its permissions with a source that is no IPv4 range
    instanceSgIds,  \* the group ids attached to the selected instance
    envUser,        \* the USER environment variable
    pc,             \* where main() is
    sg,             \* the snapshot chosen in choose_security_group
    port,           \* the port chosen in choose_security_group
    user_name,      \* main's user_name
    ip,             \* update_security_group's ip
    exists,         \* update_security_group's exists
    todo,           \* matching snapshot entries the loops have not reached
    curPerm,        \* the IpPermission the outer loop is in
    calls,          \* the mutating API calls issued in this run, in order
    outcome,        \* "running", "ok", or the exception that ended the run
    ret,            \* what update_security_group returned
    runs,           \* the number of the current run
    prev            \* the previous run's inputs and result (SpecRerun)

vars == <<remote, otherSources, instanceSgIds, envUser, pc, sg, port, user_name, ip, exists,
          todo, curPerm, calls, outcome, ret, runs, prev>>

NoPerm == <<>>
NoRet == <<>>
NoPrev == [port |-> None, ip |-> <<>>, user_name |-> "", remote |-> {},
           ret |-> NoRet]

Init ==
    /\ remote \in Policies
    /\ otherSources \in OtherSourceSets
    /\ instanceSgIds \in {{}, {"sg-1"}}
    /\ envUser \in EnvUsers
    /\ pc = "choose_security_group"
    /\ sg = {}
    /\ port = None
    /\ user_name = ""
    /\ ip = <<>>
    /\ exists = FALSE
    /\ todo = {}
    /\ curPerm = NoPerm
    /\ calls = <<>>
    /\ outcome = "running"
    /\ ret = NoRet
    /\ runs = 1
    /\ prev = NoPrev

\* [p for p in IpPermissions if p.get('IpProtocol') != '-1'] (lines 136,
\* 167): permissions are kept whatever their IpRanges.
InboundPerms(perms) == {k \in perms : k[1] # "-1"}

\* The ports offered for a group's permissions (lines 168-178).
PortSet(perms) ==
    UNION {IF k[2] # None /\ k[3] # None
           THEN (IF k[2] = k[3] THEN {k[2]} ELSE k[2] .. k[3])
           ELSE {} : k \in InboundPerms(perms)}

\* Mutant of Matches: the port test of line 209 is missing.
MatchesAnyPort(e, p, desc) == e.Description = desc

\* perm.get("FromPort") == port and ip_range.get("Description") == desc
\* (lines 209, 211).
Matches(e, p, desc) == e.FromPort = p /\ e.Description = desc

\* Mutant of RevokeTarget: the revoke names the matched rule's own ports.
RevokeTargetOwnPorts(e, p) ==
    <<"tcp", e.FromPort, e.ToPort, e.CidrIp>>

\* The rule a revoke names for a matching entry (lines 213-219).
RevokeTarget(e, p) ==
    <<"tcp", p, p, e.CidrIp>>

\* The entry an authorize adds (lines 223-231).
AuthorizeRule(p, cidr, desc) ==
    [IpProtocol |-> "tcp", FromPort |-> p, ToPort |-> p,
     CidrIp |-> cidr, Description |-> desc]

Fail(exc) ==
    /\ pc' = "failed"
    /\ outcome' = exc

\* choose_security_group: the instance is gone (lines 113-121).
InstanceNotFound ==
    /\ pc = "choose_security_group"
    /\ Fail("Exception")
    /\ UNCHANGED <<remote, otherSources, instanceSgIds, envUser, sg, port, user_name, ip,
                   exists, todo, curPerm, calls, ret, runs, prev>>

\* choose_security_group: no group attached (lines 124-126).
NoSecurityGroup ==
    /\ pc = "choose_security_group"
    /\ instanceSgIds = {}
    /\ Fail("Exception")
    /\ UNCHANGED <<remote, otherSources, instanceSgIds, envUser, sg, port, user_name, ip,
                   exists, todo, curPerm, calls, ret, runs, prev>>

\* choose_security_group: every group was skipped (lines 136-138), the menu
\* has no choice and mapping is empty: nothing can be selected (lines 155-164).
NoChoice ==
    /\ pc = "choose_security_group"
    /\ instanceSgIds # {}
    /\ InboundPerms(IpPermissions(remote, otherSources)) = {}
    /\ Fail("SelectionError")
    /\ UNCHANGED <<remote, otherSources, instanceSgIds, envUser, sg, port, user_name, ip,
                   exists, todo, curPerm, calls, ret, runs, prev>>

\* choose_security_group returns (sg, port) (lines 129-191); main reads the
\* user name (line 265).
ChooseSecurityGroup ==
    /\ pc = "choose_security_group"
    /\ instanceSgIds # {}
    /\ InboundPerms(IpPermissions(remote, otherSources)) # {}
    /\ \E p \in PortSet(IpPermissions(remote, otherSources)) :
          /\ sg' = remote
          /\ port' = p
    /\ user_name' = UserName(envUser)
    /\ pc' = "get_public_ip"
    /\ UNCHANGED <<remote, otherSources, instanceSgIds, envUser, ip, exists, todo, curPerm,
                   calls, outcome, ret, runs, prev>>

\* update_security_group, line 203: the request raises.
GetPublicIpRaises ==
    /\ pc = "get_public_ip"
    /\ Fail("RequestException")
    /\ UNCHANGED <<remote, otherSources, instanceSgIds, envUser, sg, port, user_name, ip,
                   exists, todo, curPerm, calls, ret, runs, prev>>

\* update_security_group, lines 203-205: the response text, whatever it is,
\* becomes ip with "/32" appended.
GetPublicIp ==
    /\ pc = "get_public_ip"
    /\ \E text \in ResponseTexts : ip' = Cidr32(text)
    /\ exists' = FALSE
    /\ todo' = {e \in sg : Matches(e, port, user_name)}
    /\ curPerm' = NoPerm
    /\ pc' = "update"
    /\ UNCHANGED <<remote, otherSources, instanceSgIds, envUser, sg, port, user_name,
                   calls, outcome, ret, runs, prev>>

\* The entries the nested loops can reach next: the rest of the current
\* IpPermission's IpRanges first, then any other IpPermission (lines 208-211).
NextInLoop ==
    LET inCur == {e \in todo : PermKey(e) = curPerm}
    IN IF inCur # {} THEN inCur ELSE todo

Call(op, key, desc, for, result, removed) ==
    [op |-> op, IpProtocol |-> key[1], FromPort |-> key[2], ToPort |-> key[3],
     CidrIp |-> key[4], Description |-> desc, for |-> for,
     result |-> result, removed |-> removed]

\* One revoke_security_group_ingress of the loop (lines 208-220).  The
\* provider removes the named rule; a name that fits no rule removes
\* nothing; any call may raise.
Revoke ==
    /\ pc = "update"
    /\ \E e \in NextInLoop :
         LET key == RevokeTarget(e, port)
             hit == {r \in remote : RuleKey(r) = key}
         IN \/ /\ remote' = remote \ hit
               /\ exists' = TRUE
               /\ todo' = todo \ {e}
               /\ curPerm' = PermKey(e)
               /\ calls' = Append(calls, Call("revoke", key, "", {e}, "ok", hit))
               /\ UNCHANGED <<pc, outcome>>
            \/ /\ Fail("ClientError")
               /\ calls' = Append(calls, Call("revoke", key, "", {e}, "raise", {}))
               /\ UNCHANGED <<remote, exists, todo, curPerm>>
    /\ UNCHANGED <<otherSources, instanceSgIds, envUser, sg, port, user_name, ip, ret,
                   runs, prev>>

\* authorize_security_group_ingress and the return (lines 223-233), then
\* main's summary (lines 270-277).  The provider refuses a CidrIp that is no
\* address/mask and a rule it already holds (InvalidPermission.Duplicate);
\* any call may raise.
Authorize ==
    /\ pc = "update"
    /\ todo = {}
    /\ LET new == AuthorizeRule(port, ip, user_name)
       IN \/ /\ ValidCidr(ip)
             /\ \A r \in remote : RuleKey(r) # RuleKey(new)
             /\ remote' = remote \cup {new}
             /\ calls' = Append(calls, Call("authorize", RuleKey(new),
                                            new.Description, {}, "ok", {}))
             /\ ret' = <<ip, exists>>
             /\ pc' = "done"
             /\ outcome' = "ok"
          \/ /\ Fail("ClientError")
             /\ calls' = Append(calls, Call("authorize", RuleKey(new),
                                            new.Description, {}, "raise", {}))
             /\ UNCHANGED <<remote, ret>>
    /\ UNCHANGED <<otherSources, instanceSgIds, envUser, sg, port, user_name, ip, exists,
                   todo, curPerm, runs, prev>>

\* The operator runs the tool again after a successful run: a new main().
Rerun ==
    /\ pc = "done"
    /\ runs < MaxRuns
    /\ prev' = [port |-> port, ip |-> ip, user_name |-> user_name,
                remote |-> remote, ret |-> ret]
    /\ runs' = runs + 1
    /\ pc' = "choose_security_group"
    /\ sg' = {}
    /\ port' = None
    /\ user_name' = ""
    /\ ip' = <<>>
    /\ exists' = FALSE
    /\ todo' = {}
    /\ curPerm' = NoPerm
    /\ calls' = <<>>
    /\ outcome' = "running"
    /\ ret' = NoRet
    /\ UNCHANGED <<remote, otherSources, instanceSgIds, envUser>>

Next ==
    \/ InstanceNotFound
    \/ NoSecurityGroup
    \/ NoChoice
    \/ ChooseSecurityGroup
    \/ GetPublicIpRaises
    \/ GetPublicIp
    \/ Revoke
    \/ Authorize

Spec == Init /\ [][Next]_vars

NextRerun == Next \/ Rerun

SpecRerun == Init /\ [][NextRerun]_vars

(***************************************************************************)
(* Vocabulary of the properties.                                           *)
(***************************************************************************)

\* The rule's inclusive port range covers p.
Covers(e, p) == e.FromPort # None /\ e.FromPort <= p /\ p <= e.ToPort

\* The entries of g labelled d in a TCP rule whose port range covers p.
Covering(g, p, d) ==
    {e \in g : e.IpProtocol = "tcp" /\ Covers(e, p) /\ e.Description = d}

\* The calls of the run with the given operation.
CallsOf(op) == {i \in 1..Len(calls) : calls[i].op = op}

\* main() has picked the group and the port of this run.
Chosen == pc \in {"get_public_ip", "update", "done"} \/ calls # <<>>

\* The run ended with update_security_group returning.
Succeeded == pc = "done"

\* This run is the second of two successful runs with the same port, label
\* and resolved address.
SecondSameRun ==
    /\ runs = 2
    /\ Succeeded
    /\ prev.port = port
    /\ prev.user_name = user_name
    /\ prev.ip = ip

\* The entry this run authorizes.
NewEntry == AuthorizeRule(port, ip, user_name)

\* The last call of the run.
LastCall == calls[Len(calls)]

(***************************************************************************)
(* C1.  After every successful run, the policy holds exactly one entry     *)
(* labelled with the given label in a (TCP) rule whose port range covers   *)
(* the port, and that entry's address is the resolved address with /32;    *)
(* this for every port the port-set derivation offers, a port inside a     *)
(* multi-port range included.                                              *)
(***************************************************************************)
C1_ExactlyOneCoveringEntry ==
    Succeeded =>
        /\ Cardinality(Covering(remote, port, user_name)) = 1
        /\ \A e \in Covering(remote, port, user_name) :
              e.CidrIp = ip /\ e.CidrIp[2] = "/32"

(***************************************************************************)
(* C2.  Idempotence: after two successful runs in a row with the same      *)
(* port, label and resolved address (the snapshot fetched again before the *)
(* second), the second run returned replacedPrior = TRUE and the policy    *)
(* holds exactly one entry matching (port range covers port, label).       *)
(***************************************************************************)
C2_SecondRunLeavesOne ==
    SecondSameRun =>
        /\ ret[2] = TRUE
        /\ Cardinality(Covering(remote, port, user_name)) = 1

(***************************************************************************)
(* C3.  Label isolation: an entry of another label on the target port (a   *)
(* TCP rule covering it) that was in the snapshot is in the policy, with   *)
(* the same address and label, at every point of the run.                  *)
(***************************************************************************)
C3_LabelIsolation ==
    Chosen =>
        \A e \in sg :
            (e.IpProtocol = "tcp" /\ Covers(e, port)
             /\ e.Description # user_name) => e \in remote

(***************************************************************************)
(* C4.  Port isolation: an entry of the same label in a rule whose port    *)
(* range is not exactly [port, port] (a rule for another port P2 in        *)
(* particular) is never removed, and every revoke of the run names         *)
(* FromPort = ToPort = port.                                               *)
(***************************************************************************)
C4_PortIsolation ==
    Chosen =>
        /\ \A e \in sg :
              (e.Description = user_name
               /\ ~(e.FromPort = port /\ e.ToPort = port)) => e \in remote
        /\ \A i \in CallsOf("revoke") :
              calls[i].FromPort = port /\ calls[i].ToPort = port

\* C4's case: a revoke removed the label's entry on the port while the
\* label's entry on another single port stayed.
C4_Witness ==
    /\ Succeeded
    /\ \E i \in CallsOf("revoke") : calls[i].removed # {}
    /\ \E e \in sg \cap remote :
          /\ e.Description = user_name
          /\ e.IpProtocol = "tcp"
          /\ e.FromPort = e.ToPort
          /\ e.FromPort # port

\* A revoke removed an entry and the authorize that followed raised.
PartialFailure ==
    /\ pc = "failed"
    /\ calls # <<>>
    /\ LastCall.op = "authorize"
    /\ LastCall.result = "raise"
    /\ \E i \in CallsOf("revoke") :
          calls[i].result = "ok" /\ calls[i].removed # {}

(***************************************************************************)
(* C5.  When a revoke has succeeded and the authorize fails, the run ends  *)
(* in a PartialReconciliationError, an outcome distinct from that of an    *)
(* ordinary failure.                                                       *)
(***************************************************************************)
C5_PartialReconciliationError ==
    PartialFailure => outcome = "PartialReconciliationError"

(***************************************************************************)
(* C6.  Address update: when the snapshot held an entry of the label at    *)
(* another address A1/32 on the target port (a TCP rule covering it), a    *)
(* successful run with resolved address A2 leaves exactly one entry of the *)
(* label on the port, at A2/32, none at A1/32, and returns (A2/32, TRUE).  *)
(***************************************************************************)
C6_AddressUpdate ==
    (Succeeded /\ \E e \in Covering(sg, port, user_name) : e.CidrIp # ip) =>
        /\ Covering(remote, port, user_name) = {NewEntry}
        /\ ret = <<ip, TRUE>>

\* No entry of the snapshot is labelled with the label in a rule covering
\* the port.
NoPriorEntry ==
    {e \in sg : Covers(e, port) /\ e.Description = user_name} = {}

(***************************************************************************)
(* C7.  Empty-state creation: when the snapshot has no entry of the label  *)
(* in any rule covering the port, a successful run issued no revoke,       *)
(* returned (address/32, FALSE), and the policy is the snapshot plus       *)
(* exactly one new entry of the label at the resolved address/32.          *)
(***************************************************************************)
C7_EmptyStateCreation ==
    (Succeeded /\ NoPriorEntry) =>
        /\ CallsOf("revoke") = {}
        /\ ret = <<ip, FALSE>>
        /\ ip[2] = "/32"
        /\ NewEntry \notin sg
        /\ remote = sg \cup {NewEntry}
        /\ Cardinality(Covering(remote, port, user_name)) = 1

\* C7's case: a successful run on a snapshot that held another label's entry
\* on the port, and the same label's entry on another port only.
C7_Witness ==
    /\ Succeeded
    /\ NoPriorEntry
    /\ \E e \in sg : e.IpProtocol = "tcp" /\ Covers(e, port)
                     /\ e.Description # user_name
    /\ \E e \in sg : e.Description = user_name

(***************************************************************************)
(* C8.  Precondition failure: reconciliation is only reached, and a        *)
(* mutation only issued, when the instance has a group attached and the    *)
(* chosen group has at least one TCP inbound rule.                         *)
(***************************************************************************)
C8_NoRunWithoutTcpRule ==
    Chosen =>
        /\ instanceSgIds # {}
        /\ \E k \in IpPermissions(sg, otherSources) : k[1] = "tcp"

\* The address resolution of this run failed: the request raised, or it
\* answered something that is not an address.
ResolutionFailed ==
    \/ outcome = "RequestException"
    \/ (pc \in {"update", "done", "failed"} /\ ip # <<>> /\ ~ValidCidr(ip))

(***************************************************************************)
(* C9.  When the address resolution fails, the run ends with no revoke and *)
(* no authorize issued and the policy as it was; every mutation of a run   *)
(* is issued after the address was resolved successfully.                  *)
(***************************************************************************)
C9_ResolveBeforeMutation ==
    /\ ResolutionFailed => (calls = <<>> /\ remote = sg)
    /\ calls # <<>> => ValidCidr(ip)

(***************************************************************************)
(* C10.  Mutation protocol of a successful run: a revoke was issued for    *)
(* every snapshot entry in a rule with FromPort = port and the label, each *)
(* revoke removed exactly that (rule, address) pair, the one authorize     *)
(* (tcp, port, port, address/32, label) came last, and replacedPrior is    *)
(* TRUE exactly when an entry was revoked.                                 *)
(***************************************************************************)
C10_MutationProtocol ==
    Succeeded =>
        /\ \A e \in sg : Matches(e, port, user_name) =>
              \E i \in CallsOf("revoke") : calls[i].for = {e}
        /\ \A i \in CallsOf("revoke") : calls[i].removed = calls[i].for
        /\ CallsOf("authorize") = {Len(calls)}
        /\ RuleKey(NewEntry) = <<LastCall.IpProtocol, LastCall.FromPort,
                                 LastCall.ToPort, LastCall.CidrIp>>
        /\ LastCall.Description = user_name
        /\ ret[2] = (\E i \in CallsOf("revoke") : calls[i].removed # {})

====
